---- MODULE Spec2Model ----
(***************************************************************************)
(* A model of the two command-line tools of python_scripts:                *)
(*   pdf_helper.py   (compress, watermark)                                 *)
(*   docx_to_pdf.py  (convert)                                             *)
(* One process run is one behaviour: Init fixes the command line and the   *)
(* input file, the actions are the steps of main and of the operation      *)
(* function it calls, and the run ends in pc = "exited".                   *)
(* The tools are named after their usage strings; in the source tree the    *)
(* file docx_to_pdf.py holds the PDF manipulator (compress_pdf,            *)
(* add_watermark) and the file pdf_helper.py holds the converter           *)
(* (parse_docx_paragraph, docx_to_pdf).                                    *)
(* Text is a sequence of tokens: a token is one character ("a", " ") or    *)
(* one whole markup tag ("<b>", "</b>", ...).                              *)
(***************************************************************************)
EXTENDS Integers, Sequences, FiniteSets, TLC

\* ------------------------------------------------------------------ bounds
MaxSize == 6          \* file sizes in bytes are 0..MaxSize
MaxPages == 2         \* pages of the input PDF are 0..MaxPages
MaxParas == 2         \* paragraphs of the input DOCX
MaxTables == 1        \* tables of the input DOCX
MaxRuns == 2          \* runs of a paragraph (paragraph translation)

\* ------------------------------------------------------------ small helpers
Last(s) == s[Len(s)]

RECURSIVE Concat(_)
\* ''.join(parts)
Concat(parts) ==
    IF parts = <<>> THEN <<>> ELSE Head(parts) \o Concat(Tail(parts))

RECURSIVE SeqsUpTo(_, _)
\* all sequences over S of length 0..n
SeqsUpTo(S, n) ==
    IF n = 0 THEN {<<>>}
    ELSE LET shorter == SeqsUpTo(S, n - 1)
         IN  shorter \cup {Append(s, x) : s \in shorter, x \in S}

Abs(x) == IF x < 0 THEN -x ELSE x

\* ------------------------------------------------------- number formatting
Digit(d) ==
    CASE d = 0 -> "0" [] d = 1 -> "1" [] d = 2 -> "2" [] d = 3 -> "3"
      [] d = 4 -> "4" [] d = 5 -> "5" [] d = 6 -> "6" [] d = 7 -> "7"
      [] d = 8 -> "8" [] d = 9 -> "9"

RECURSIVE Decimal(_)
\* the decimal digits of a natural number
Decimal(n) ==
    IF n < 10 THEN <<Digit(n)>> ELSE Append(Decimal(n \div 10), Digit(n % 10))

Sign(x) == IF x > 0 THEN 1 ELSE IF x < 0 THEN -1 ELSE 0

RECURSIVE Gcd(_, _)
Gcd(a, b) == IF b = 0 THEN a ELSE Gcd(b, a % b)

RECURSIVE Pow2(_)
Pow2(n) == IF n = 0 THEN 1 ELSE 2 * Pow2(n - 1)

RECURSIVE Pow2Mod(_, _)
\* 2^n modulo m
Pow2Mod(n, m) == IF n = 0 THEN 1 % m ELSE (2 * Pow2Mod(n - 1, m)) % m

RECURSIVE FloorLog2(_, _, _)
\* the f with 2^f <= a / d < 2^(f+1), searched from f (0 when a >= d, else -1)
FloorLog2(a, d, f) ==
    IF f >= 0
    THEN IF d * Pow2(f + 1) <= a THEN FloorLog2(a, d, f + 1) ELSE f
    ELSE IF a * Pow2(-f) < d THEN FloorLog2(a, d, f - 1) ELSE f

\* The sign of the error of the double (a / (32 * d)) * 100 against the real
\* number 100 * a / (32 * d), for a > 0 odd and prime to 5 and d = 5, 25, 125
\* or 625 (the quotients whose hundredths of a percent end in exactly one
\* half). The division rounds a * 2^k / d to the 53-bit integer m, off by
\* e1 / d; the multiplication rounds 25 * m to 53 bits, off by e2; both round
\* to nearest, ties to even. Only m modulo 64 is needed, and d * m = e1
\* modulo 64 as k > 5.
DoubleErrorSign(a, d) ==
    LET f == FloorLog2(a, d, IF a >= d THEN 0 ELSE -1)
        k == 52 - f
        rem == ((a % d) * Pow2Mod(k, d)) % d
        e1 == IF 2 * rem < d THEN -rem ELSE d - rem
        inv == CHOOSE x \in 1..63 : (x * d) % 64 = 1
        m64 == ((e1 % 64) * inv) % 64
        cmp == Sign(25 * a * Pow2(IF -5 - f > 0 THEN -5 - f ELSE 0)
                    - d * Pow2(IF 5 + f > 0 THEN 5 + f ELSE 0))
        bits == IF cmp > 0 \/ (cmp = 0 /\ e1 >= 0) THEN 5 ELSE 4
        p == 25 * m64
        low == p % Pow2(bits)
        half == Pow2(bits - 1)
        e2 == IF low < half THEN -low
              ELSE IF low > half THEN Pow2(bits) - low
              ELSE IF (p \div Pow2(bits)) % 2 = 1 THEN half ELSE -half
    IN  Sign(d * e2 + 25 * e1)

\* The hundredths of f"{num / den * 100:.2f}" without its sign, for den > 0
\* and |num| < 214748: num / den * 100 is computed in doubles and '.2f' rounds
\* the double it is given correctly, ties to even. Away from a tie the double
\* rounds as the real number does; on a tie of the real number (its reduced
\* denominator is 32 * 5^j) the error of the double decides, and the double
\* is the tie itself only for the denominator 32.
RoundedHundredths(num, den) ==
    LET n == Abs(num) * 10000
        q == n \div den
        r == n % den
        g == Gcd(Abs(num), den)
        err == IF den \div g = 32 THEN 0
               ELSE DoubleErrorSign(Abs(num) \div g, (den \div g) \div 32)
    IN  IF 2 * r > den THEN q + 1
        ELSE IF 2 * r < den THEN q
        ELSE IF err > 0 \/ (err = 0 /\ q % 2 = 1) THEN q + 1 ELSE q

\* f"{compression_ratio:.2f}%" where compression_ratio is
\* (saved_bytes / input_size * 100) if input_size > 0 else 0
FormatRatio(saved_bytes, input_size) ==
    IF input_size > 0
    THEN LET h == RoundedHundredths(saved_bytes, input_size)
             sign == IF saved_bytes < 0 THEN <<"-">> ELSE <<>>
         IN  sign \o Decimal(h \div 100) \o <<".">>
                  \o <<Digit((h \div 10) % 10), Digit(h % 10)>> \o <<"%">>
    ELSE <<"0", ".", "0", "0", "%">>

\* ------------------------------------------------------------------ state
VARIABLES
    tool,       \* "pdf_helper" or "docx_to_pdf": the script that was started
    argv,       \* sys.argv, argv[1] being the script name (sys.argv[k] = argv[k+1])
    input,      \* the file at the input path: [state, size, pages]
    doc,        \* the DOCX document at the input path: [paragraphs, tables]
    libs,       \* "present" or "missing": whether the third-party imports succeed
    pc,         \* the position of the process
    stdout,     \* the JSON reports printed so far, in order
    stderr,     \* tracebacks of uncaught exceptions
    exitCode,   \* the exit code of the process, -1 while it runs
    result,     \* the report returned by the operation function
    pdf,        \* compress: the pikepdf document ("none", "open", "closed")
    saveCall,   \* compress: the pdf.save calls made, [options, size]
    options,    \* watermark: the options value passed to add_watermark
    wm,         \* watermark: locals of add_watermark
    cv          \* convert: locals of docx_to_pdf

vars == <<tool, argv, input, doc, libs, pc, stdout, stderr, exitCode, result,
          pdf, saveCall, options, wm, cv>>

NoResult == [none |-> TRUE]

\* sys.argv[k] and len(sys.argv)
Arg(k) == argv[k + 1]
Argc == Len(argv)

\* --------------------------------------------------------------- reports
\* {'success': False, 'error': str(e)}; a message is a tuple of its parts
FailureReport(msg) == [success |-> FALSE, error |-> msg]

NoOperationReport ==
    [success |-> FALSE, error |-> <<"No operation specified">>,
     usage |-> "python pdf_helper.py <operation> <args...>",
     operations |-> <<"compress", "watermark">>]

CompressUsageReport ==
    [success |-> FALSE, error |-> <<"Usage: compress <input> <output> <level>">>,
     levels |-> <<"low", "medium", "high", "extreme">>]

WatermarkUsageReport ==
    [success |-> FALSE,
     error |-> <<"Usage: watermark <input> <output> <text> [options_json]">>]

UnknownOperationReport(operation) ==
    [success |-> FALSE, error |-> <<"Unknown operation: ", operation>>,
     operations |-> <<"compress", "watermark">>]

\* the reports of the two scripts for an ImportError at start
PdfMissingLibraryReport ==
    [success |-> FALSE, error |-> <<"Missing required library: ", "No module named">>,
     install_command |-> "pip install pikepdf reportlab pypdf pillow"]

DocxMissingLibraryReport ==
    [success |-> FALSE, error |-> <<"Missing required library: ", "No module named">>,
     installed |-> "python-docx, reportlab should be installed"]

DocxUsageReport ==
    [success |-> FALSE,
     error |-> <<"Usage: python docx_to_pdf.py <input.docx> <output.pdf>">>]

InputNotFoundReport(input_path) ==
    [success |-> FALSE, error |-> <<"Input file not found: ", input_path>>]

\* ------------------------------------------------------- exceptions in main
\* a handler that catches BaseException, SystemExit included
MainCatchesAll(exc) == TRUE

\* the base classes of an exception class; the classes that derive from
\* BaseException directly are listed, and the errors of the libraries derive
\* from Exception
BasesOf(exc) ==
    CASE exc = "BaseException" -> {}
      [] exc \in {"Exception", "SystemExit", "KeyboardInterrupt", "GeneratorExit",
                  "CancelledError", "BaseExceptionGroup"} -> {"BaseException"}
      [] exc = "JSONDecodeError" -> {"ValueError"}
      [] exc = "KeyError" -> {"LookupError"}
      [] exc = "ExceptionGroup" -> {"BaseExceptionGroup", "Exception"}
      [] OTHER -> {"Exception"}

RECURSIVE IsInstance(_, _)
\* isinstance(e, class) for an exception e of class exc
IsInstance(exc, class) ==
    \/ exc = class
    \/ \E base \in BasesOf(exc) : IsInstance(base, class)

\* "except Exception as e" of pdf_helper.main: an exception is caught when it
\* is an instance of Exception; BaseException itself and the classes that
\* derive from it only (SystemExit, KeyboardInterrupt, ...) pass through
MainCatches(exc) == IsInstance(exc, "Exception")

\* What the try block of pdf_helper.main leaves behind when `exc` is raised in
\* it after `out` has been printed: caught, the handler prints one failure
\* report and exits 1; SystemExit(code) uncaught ends the process with its code;
\* KeyboardInterrupt uncaught ends it with a traceback, killed by SIGINT (-2);
\* any other uncaught exception ends it with a traceback and code 1.
RaisedInTry(exc, msg, code, out) ==
    IF MainCatches(exc)
    THEN [stdout |-> Append(out, FailureReport(msg)), stderr |-> <<>>, exitCode |-> 1]
    ELSE IF exc = "SystemExit"
    THEN [stdout |-> out, stderr |-> <<>>, exitCode |-> code]
    ELSE IF exc = "KeyboardInterrupt"
    THEN [stdout |-> out, stderr |-> <<"Traceback">>, exitCode |-> -2]
    ELSE [stdout |-> out, stderr |-> <<"Traceback">>, exitCode |-> 1]

\* ------------------------------------------------------------------- JSON
\* The option strings a caller may pass as the fifth argument.
OptionsJsons ==
    {"{}", "{\"position\": \"top\"}", "{\"position\": \"left\", \"extra\": 1}",
     "{\"color\": {\"r\": 1}}", "{\"color\": {\"g\": 1, \"b\": 1}}",
     "null", "[]", "{\"position\": "}

\* the option strings that are JSON text
ValidJson == OptionsJsons \ {"{\"position\": "}

EmptyDict == [kind |-> "dict", keys |-> {}]

\* The value a JSON text denotes. A dict is [kind, keys, <key> |-> value ...];
\* a colour is the set of the keys it has.
JsonValue(s) ==
    CASE s = "{}" -> EmptyDict
      [] s = "{\"position\": \"top\"}" ->
            [kind |-> "dict", keys |-> {"position"}, position |-> "top"]
      [] s = "{\"position\": \"left\", \"extra\": 1}" ->
            [kind |-> "dict", keys |-> {"position", "extra"}, position |-> "left"]
      [] s = "{\"color\": {\"r\": 1}}" ->
            [kind |-> "dict", keys |-> {"color"}, color |-> {"r"}]
      [] s = "{\"color\": {\"g\": 1, \"b\": 1}}" ->
            [kind |-> "dict", keys |-> {"color"}, color |-> {"g", "b"}]
      [] s = "null" -> [kind |-> "None"]
      [] s = "[]" -> [kind |-> "list"]

\* a parser that takes text that is no JSON for an empty object
JsonLoadsLenient(s) ==
    [ok |-> TRUE, value |-> IF s \in ValidJson THEN JsonValue(s) ELSE EmptyDict]

\* json.loads(s): the parsed value, or JSONDecodeError for text that is not JSON
JsonLoads(s) ==
    IF s \in ValidJson
    THEN [ok |-> TRUE, value |-> JsonValue(s)]
    ELSE [ok |-> FALSE, error |-> <<"Expecting value: line 1 column 14 (char 13)">>]

\* ----------------------------------------------------------------- inputs
Operations == {"compress", "watermark", "rotate"}
Levels == {"low", "medium", "high", "extreme", "ultra"}

\* the command lines of pdf_helper.py
PdfArgvs ==
    LET S == "pdf_helper.py"
    IN  {<<S>>}
        \cup {<<S, op>> : op \in Operations}
        \cup {<<S, op, "in.pdf">> : op \in Operations}
        \cup {<<S, op, "in.pdf", "out.pdf">> : op \in Operations}
        \cup {<<S, "compress", "in.pdf", "out.pdf", l>> : l \in Levels}
        \cup {<<S, "rotate", "in.pdf", "out.pdf", "90">>}
        \cup {<<S, "watermark", "in.pdf", "out.pdf", "DRAFT">>}
        \cup {<<S, "watermark", "in.pdf", "out.pdf", "DRAFT", j>> : j \in OptionsJsons}

\* the file at the input path: missing, not a PDF, or a PDF of some size and pages
InputFiles ==
    {[state |-> "missing", size |-> 0, pages |-> 0],
     [state |-> "corrupt", size |-> 1, pages |-> 0]}
    \cup {[state |-> "valid", size |-> sz, pages |-> n] :
             sz \in 1..MaxSize, n \in 0..MaxPages}

\* -------------------------------------------------------------- compress
\* save_options
SaveOptionsTable ==
    [low |-> [compress_streams |-> TRUE, stream_decode_level |-> 0,
              object_stream_mode |-> 0, recompress_flate |-> FALSE],
     medium |-> [compress_streams |-> TRUE, stream_decode_level |-> 1,
                 object_stream_mode |-> 1, recompress_flate |-> TRUE],
     high |-> [compress_streams |-> TRUE, stream_decode_level |-> 2,
               object_stream_mode |-> 2, recompress_flate |-> TRUE],
     extreme |-> [compress_streams |-> TRUE, stream_decode_level |-> 3,
                  object_stream_mode |-> 2, recompress_flate |-> TRUE,
                  normalize_content |-> TRUE]]

\* save_options.get(level, save_options['medium'])
SaveOptions(level) ==
    IF level \in DOMAIN SaveOptionsTable
    THEN SaveOptionsTable[level] ELSE SaveOptionsTable["medium"]

\* the report of a compression that did not raise
CompressReport(input_size, output_size, level) ==
    LET saved_bytes == input_size - output_size
    IN  [success |-> TRUE,
         original_size |-> input_size,
         compressed_size |-> output_size,
         saved_bytes |-> saved_bytes,
         compression_ratio |-> FormatRatio(saved_bytes, input_size),
         level |-> level]

\* -------------------------------------------------------------- watermark
\* options.get(key, default)
Get(d, key, default) == IF key \in d.keys THEN d[key] ELSE default

DefaultColor == {"r", "g", "b"}

WmInit ==
    [position |-> "", color |-> {}, pages |-> <<>>, writer |-> <<>>,
     merged |-> <<>>, packets |-> <<>>, outFile |-> "none",
     started |-> FALSE, raised |-> FALSE]

\* a report that counts with the loop's last page_num instead of len(reader.pages)
WatermarkReportLastIndex(npages, text, position) ==
    [success |-> TRUE, pages |-> npages - 1, watermark |-> text, position |-> position]

\* the report of a watermarking that did not raise
WatermarkReport(npages, text, position) ==
    [success |-> TRUE, pages |-> npages, watermark |-> text, position |-> position]

\* ---------------------------------------------------------------- convert
\* the characters str.strip() removes (those with str.isspace()); a character
\* a string of this module cannot hold is written as its Python escape
Whitespace ==
    {" ", "\t", "\n", "\r", "\f", "\\x0b", "\\x1c", "\\x1d", "\\x1e", "\\x1f",
     "\\x85", "\\xa0", "\\u1680", "\\u2000", "\\u2001", "\\u2002", "\\u2003",
     "\\u2004", "\\u2005", "\\u2006", "\\u2007", "\\u2008", "\\u2009", "\\u200a",
     "\\u2028", "\\u2029", "\\u202f", "\\u205f", "\\u3000"}
OpenTags == {"<b>", "<i>", "<u>", "<sup>"}
CloseTags == {"</b>", "</i>", "</u>", "</sup>"}
CloseOf(tag) ==
    CASE tag = "<b>" -> "</b>" [] tag = "<i>" -> "</i>"
      [] tag = "<u>" -> "</u>" [] tag = "<sup>" -> "</sup>"

RECURSIVE LStrip(_)
LStrip(text) ==
    IF text # <<>> /\ Head(text) \in Whitespace THEN LStrip(Tail(text)) ELSE text

RECURSIVE RStrip(_)
RStrip(text) ==
    IF text # <<>> /\ Last(text) \in Whitespace
    THEN RStrip(SubSeq(text, 1, Len(text) - 1)) ELSE text

\* text.strip()
Strip(text) == RStrip(LStrip(text))

Run(text, bold, italic, underline) ==
    [text |-> text, bold |-> bold, italic |-> italic, underline |-> underline]

\* the wrapping the specification words: bold outermost, then italic, then underline
WrapRunBoldOutermost(run) ==
    LET t1 == IF run.underline THEN <<"<u>">> \o run.text \o <<"</u>">> ELSE run.text
        t2 == IF run.italic THEN <<"<i>">> \o t1 \o <<"</i>">> ELSE t1
    IN  IF run.bold THEN <<"<b>">> \o t2 \o <<"</b>">> ELSE t2

\* the body of the loop of parse_docx_paragraph for one run with text:
\* the text is wrapped for bold first, then for italic, then for underline
WrapRun(run) ==
    LET t1 == IF run.bold THEN <<"<b>">> \o run.text \o <<"</b>">> ELSE run.text
        t2 == IF run.italic THEN <<"<i>">> \o t1 \o <<"</i>">> ELSE t1
    IN  IF run.underline THEN <<"<u>">> \o t2 \o <<"</u>">> ELSE t2

RECURSIVE TextParts(_)
\* text_parts: one entry per run whose text is not empty
TextParts(runs) ==
    IF runs = <<>> THEN <<>>
    ELSE IF Head(runs).text = <<>> THEN TextParts(Tail(runs))
    ELSE <<WrapRun(Head(runs))>> \o TextParts(Tail(runs))

parse_docx_paragraph(para) == Concat(TextParts(para.runs))

\* the characters of one token; a token that is the escape of a character
\* (a backslash and more) is that one character
CharactersOf(token) ==
    IF Len(token) > 1 /\ SubSeq(token, 1, 1) = "\\" THEN <<token>>
    ELSE [k \in 1..Len(token) |-> SubSeq(token, k, k)]

RECURSIVE Characters(_)
\* the string a text denotes, character by character
Characters(text) ==
    IF text = <<>> THEN <<>> ELSE CharactersOf(Head(text)) \o Characters(Tail(text))

RECURSIVE Tokens(_)
\* the text of a string: every tag spelled in it is one token, every other
\* character is a token of its own
Tokens(chars) ==
    IF chars = <<>> THEN <<>>
    ELSE LET tags == {t \in OpenTags \cup CloseTags :
                         /\ Len(t) <= Len(chars)
                         /\ SubSeq(chars, 1, Len(t)) = CharactersOf(t)}
         IN  IF tags # {}
             THEN LET t == CHOOSE x \in tags : TRUE
                  IN  <<t>> \o Tokens(SubSeq(chars, Len(t) + 1, Len(chars)))
             ELSE <<Head(chars)>> \o Tokens(Tail(chars))

RECURSIVE WellNested(_, _)
\* the tags of text are closed in the order opposite to the one they were
\* opened in, and none is left open; stack holds the tags open so far
WellNested(text, stack) ==
    IF text = <<>> THEN stack = <<>>
    ELSE LET t == Head(text)
         IN  IF t \in OpenTags THEN WellNested(Tail(text), <<t>> \o stack)
             ELSE IF t \in CloseTags
             THEN stack # <<>> /\ CloseOf(Head(stack)) = t
                  /\ WellNested(Tail(text), Tail(stack))
             ELSE WellNested(Tail(text), stack)

\* Paragraph(text, style) returns: the markup parser raises on a tag that is
\* left open or closed out of order
ParagraphParses(text) == WellNested(Tokens(Characters(text)), <<>>)

RECURSIVE Replace(_, _)
\* chars.replace(old, ''): the occurrences of old are removed from the left,
\* without overlap
Replace(chars, old) ==
    IF Len(chars) < Len(old) THEN chars
    ELSE IF SubSeq(chars, 1, Len(old)) = old
    THEN Replace(SubSeq(chars, Len(old) + 1, Len(chars)), old)
    ELSE <<Head(chars)>> \o Replace(Tail(chars), old)

\* text.replace('<b>', '').replace('</b>', '') ... .replace('</u>', ''): six
\* replacements, each applied to the whole string the one before it left
StripMarkers(text) ==
    LET r1 == Replace(Characters(text), CharactersOf("<b>"))
        r2 == Replace(r1, CharactersOf("</b>"))
        r3 == Replace(r2, CharactersOf("<i>"))
        r4 == Replace(r3, CharactersOf("</i>"))
        r5 == Replace(r4, CharactersOf("<u>"))
        r6 == Replace(r5, CharactersOf("</u>"))
    IN  Tokens(r6)

\* sub in s, for two strings
Contains(sub, s) ==
    \E i \in 1..(Len(s) - Len(sub) + 1) : SubSeq(s, i, i + Len(sub) - 1) = sub

\* the ParagraphStyle chosen from the paragraph's style name, by containment
StyleFor(style_name) ==
    IF Contains("Heading 1", style_name) \/ Contains("Title", style_name)
    THEN [name |-> "CustomHeading1", fontSize |-> 18]
    ELSE IF Contains("Heading 2", style_name)
    THEN [name |-> "CustomHeading2", fontSize |-> 14]
    ELSE IF Contains("Heading 3", style_name)
    THEN [name |-> "CustomHeading3", fontSize |-> 12]
    ELSE [name |-> "CustomNormal", fontSize |-> 11]

\* Spacer(1, 0.2 * inch) and Spacer(1, 0.3 * inch), in hundredths of an inch
ParagraphSpacer == 20
TableSpacer == 30

SpacerBlock(height) == [kind |-> "Spacer", height |-> height]
ParagraphBlock(text, style) == [kind |-> "Paragraph", text |-> text, style |-> style]
TableBlock(data) == [kind |-> "Table", data |-> data]

\* What the paragraph loop of docx_to_pdf adds to the story for one paragraph:
\* [raised, blocks, fallback]. A blank text gives a spacer; otherwise the styled
\* block, and when building it raises, the block of the text without markers,
\* whose own failure leaves the except clause as an exception.
ParagraphStep(para) ==
    LET text == parse_docx_paragraph(para)
        style == StyleFor(para.style)
        plain == StripMarkers(text)
    IN  IF Strip(text) = <<>>
        THEN [raised |-> FALSE, fallback |-> FALSE,
              blocks |-> <<SpacerBlock(ParagraphSpacer)>>]
        ELSE IF ParagraphParses(text)
        THEN [raised |-> FALSE, fallback |-> FALSE,
              blocks |-> <<ParagraphBlock(text, style)>>]
        ELSE IF ParagraphParses(plain)
        THEN [raised |-> FALSE, fallback |-> TRUE,
              blocks |-> <<ParagraphBlock(plain, style)>>]
        ELSE [raised |-> TRUE, fallback |-> TRUE, blocks |-> <<>>]

RECURSIVE StripCells(_)
\* row_data: cell.text.strip() of every cell of a row
StripCells(row) ==
    IF row = <<>> THEN <<>> ELSE <<Strip(Head(row))>> \o StripCells(Tail(row))

RECURSIVE TableData(_)
\* table_data: one row_data per row
TableData(table) ==
    IF table = <<>> THEN <<>>
    ELSE <<StripCells(Head(table))>> \o TableData(Tail(table))

\* what the table loop adds to the story for one table: nothing for no rows
TableStep(table) ==
    IF TableData(table) # <<>>
    THEN <<TableBlock(TableData(table)), SpacerBlock(TableSpacer)>>
    ELSE <<>>

\* the report of a conversion that did not raise
ConvertReport(nparas, ntables, output_size) ==
    [success |-> TRUE, paragraphs |-> nparas, tables |-> ntables,
     output_size |-> output_size, format |-> "pdf"]

CvInit == [para |-> 0, table |-> 0, story |-> <<>>, fallbacks |-> 0, text |-> <<>>]

\* the command lines of docx_to_pdf.py
DocxArgvs ==
    LET S == "docx_to_pdf.py"
    IN  {<<S>>, <<S, "in.docx">>, <<S, "in.docx", "out.pdf">>}

\* the paragraphs an input document is made of
DocParagraphs ==
    {[runs |-> <<>>, style |-> "Normal"],
     [runs |-> <<Run(<<"a">>, FALSE, FALSE, FALSE)>>, style |-> "Normal"],
     [runs |-> <<Run(<<" ", "\t">>, FALSE, FALSE, FALSE)>>, style |-> "Normal"],
     [runs |-> <<Run(<<" ">>, TRUE, FALSE, FALSE)>>, style |-> "Normal"],
     [runs |-> <<Run(<<"<b>", "a">>, FALSE, FALSE, FALSE)>>, style |-> "Book Title"],
     [runs |-> <<Run(<<"<sup>", "a">>, FALSE, TRUE, FALSE)>>, style |-> "Heading 2"],
     [runs |-> <<Run(<<"a">>, TRUE, FALSE, TRUE), Run(<<>>, TRUE, TRUE, TRUE),
                 Run(<<" ", "a">>, FALSE, TRUE, FALSE)>>, style |-> "Heading 1"]}

\* the tables an input document is made of: no rows, or one row of two cells
DocTables == {<<>>, << <<(<<"\t", "a", "\n">>), (<<>>)>> >>}

NoDoc == [paragraphs |-> <<>>, tables |-> <<>>]

Docs ==
    {[paragraphs |-> ps, tables |-> ts] :
        ps \in SeqsUpTo(DocParagraphs, MaxParas), ts \in SeqsUpTo(DocTables, MaxTables)}

\* ------------------------------------------------------------------- Init
Init ==
    /\ \/ /\ tool = "pdf_helper"
          /\ argv \in PdfArgvs
          /\ input \in InputFiles
          /\ doc = NoDoc
       \/ /\ tool = "docx_to_pdf"
          /\ argv \in DocxArgvs
          /\ \/ /\ input \in {f \in InputFiles : f.state # "valid"}
                /\ doc = NoDoc
             \/ /\ input = [state |-> "valid", size |-> 1, pages |-> 0]
                /\ doc \in Docs
    /\ libs \in {"present", "missing"}
    /\ pc = "import"
    /\ stdout = <<>>
    /\ stderr = <<>>
    /\ exitCode = -1
    /\ result = NoResult
    /\ pdf = "none"
    /\ saveCall = <<>>
    /\ options = [kind |-> "unset"]
    /\ wm = WmInit
    /\ cv = CvInit

opVars == <<result, pdf, saveCall, options, wm, cv>>
envVars == <<tool, argv, input, doc, libs>>

\* the process ends: what main printed, its tracebacks, its exit code
Exit(out, err, code) ==
    /\ stdout' = out
    /\ stderr' = err
    /\ exitCode' = code
    /\ pc' = "exited"

ExitAs(end) == Exit(end.stdout, end.stderr, end.exitCode)

\* ------------------------------------------------------------ module start
\* the imports of either script succeed and the script goes on to main()
ImportLibraries ==
    /\ pc = "import"
    /\ libs = "present"
    /\ pc' = "main"
    /\ UNCHANGED <<envVars, opVars, stdout, stderr, exitCode>>

\* except ImportError: with a library missing the script prints its report
\* and exits 1 before main is reached
ImportError ==
    /\ pc = "import"
    /\ libs = "missing"
    /\ Exit(Append(stdout, IF tool = "pdf_helper" THEN PdfMissingLibraryReport
                           ELSE DocxMissingLibraryReport), stderr, 1)
    /\ UNCHANGED <<envVars, opVars>>

\* ------------------------------------------------------- pdf_helper.main
\* len(sys.argv) < 2: the usage report and sys.exit(1), before the try block
PdfNoOperation ==
    /\ pc = "main" /\ tool = "pdf_helper"
    /\ Argc < 2
    /\ Exit(Append(stdout, NoOperationReport), stderr, 1)
    /\ UNCHANGED <<envVars, opVars>>

\* operation == 'compress' with too few arguments: report, sys.exit(1) in the try
PdfCompressUsage ==
    /\ pc = "main" /\ tool = "pdf_helper"
    /\ Argc >= 2 /\ Arg(1) = "compress"
    /\ Argc < 5
    /\ ExitAs(RaisedInTry("SystemExit", <<"1">>, 1, Append(stdout, CompressUsageReport)))
    /\ UNCHANGED <<envVars, opVars>>

\* operation == 'compress': compress_pdf(input_path, output_path, level) is called
PdfCompressCall ==
    /\ pc = "main" /\ tool = "pdf_helper"
    /\ Argc >= 2 /\ Arg(1) = "compress"
    /\ Argc >= 5
    /\ pc' = "c_open"
    /\ UNCHANGED <<envVars, opVars, stdout, stderr, exitCode>>

\* operation == 'watermark' with too few arguments
PdfWatermarkUsage ==
    /\ pc = "main" /\ tool = "pdf_helper"
    /\ Argc >= 2 /\ Arg(1) = "watermark"
    /\ Argc < 5
    /\ ExitAs(RaisedInTry("SystemExit", <<"1">>, 1, Append(stdout, WatermarkUsageReport)))
    /\ UNCHANGED <<envVars, opVars>>

\* operation == 'watermark': the options are parsed, which may raise in the try
\* block, and add_watermark(input_path, output_path, text, options) is called
PdfWatermarkCall ==
    /\ pc = "main" /\ tool = "pdf_helper"
    /\ Argc >= 2 /\ Arg(1) = "watermark"
    /\ Argc >= 5
    /\ LET parsed == IF Argc > 5 THEN JsonLoads(Arg(5))
                     ELSE [ok |-> TRUE, value |-> EmptyDict]
       IN  IF parsed.ok
           THEN /\ options' = parsed.value
                /\ pc' = "w_options"
                /\ UNCHANGED <<stdout, stderr, exitCode>>
           ELSE /\ ExitAs(RaisedInTry("JSONDecodeError", parsed.error, 1, stdout))
                /\ UNCHANGED options
    /\ UNCHANGED <<envVars, result, pdf, saveCall, wm, cv>>

\* any other operation
PdfUnknownOperation ==
    /\ pc = "main" /\ tool = "pdf_helper"
    /\ Argc >= 2 /\ Arg(1) \notin {"compress", "watermark"}
    /\ ExitAs(RaisedInTry("SystemExit", <<"1">>, 1,
                          Append(stdout, UnknownOperationReport(Arg(1)))))
    /\ UNCHANGED <<envVars, opVars>>

\* print(json.dumps(result)) ends the try block and main: nothing sets an exit
\* code, so the interpreter exits with 0
PdfPrintResult ==
    /\ pc = "print" /\ tool = "pdf_helper"
    /\ Exit(Append(stdout, result), stderr, 0)
    /\ UNCHANGED <<envVars, opVars>>

\* ---------------------------------------------------------- compress_pdf
\* Pdf.open(input_path): raises for a missing file or one that is no PDF
CompressOpen ==
    /\ pc = "c_open"
    /\ IF input.state = "valid"
       THEN /\ pdf' = "open"
            /\ pc' = "c_save"
            /\ UNCHANGED result
       ELSE /\ result' = FailureReport(<<"open: ", input.state>>)
            /\ pc' = "c_return"
            /\ UNCHANGED pdf
    /\ UNCHANGED <<envVars, stdout, stderr, exitCode, saveCall, options, wm, cv>>

\* pdf.save(output_path, **options) with the options of the level, the two
\* os.path.getsize calls and the report; the library may raise in save, and the
\* file it writes may have any size
CompressSave ==
    /\ pc = "c_save"
    /\ \/ /\ result' = FailureReport(<<"save">>)
          /\ UNCHANGED saveCall
       \/ \E output_size \in 0..MaxSize :
            /\ saveCall' = Append(saveCall, [options |-> SaveOptions(Arg(4)),
                                             size |-> output_size])
            /\ result' = CompressReport(input.size, output_size, Arg(4))
    /\ pc' = "c_return"
    /\ UNCHANGED <<envVars, stdout, stderr, exitCode, pdf, options, wm, cv>>

\* compress_pdf returns. No statement closes pdf: whether the document is
\* released before main prints is up to the interpreter's finalisation of the
\* unreachable object.
CompressReturn ==
    /\ pc = "c_return"
    /\ \E finalised \in BOOLEAN :
          pdf' = IF pdf = "open" /\ finalised THEN "closed" ELSE pdf
    /\ pc' = "print"
    /\ UNCHANGED <<envVars, stdout, stderr, exitCode, result, saveCall, options, wm, cv>>

\* ---------------------------------------------------------- add_watermark
\* the except clause of add_watermark: the failure report is returned
WatermarkRaise(msg, w) ==
    /\ result' = FailureReport(msg)
    /\ wm' = [w EXCEPT !.raised = TRUE]
    /\ pc' = "w_return"

\* options is None -> {} and the options.get calls, then PdfReader(input_path)
\* and PdfWriter(): a value without .get raises, and so does a missing or
\* broken input file. The reader reads the file and keeps no handle on it.
WatermarkOpen ==
    /\ pc = "w_options"
    /\ LET opts == IF options.kind = "None" THEN EmptyDict ELSE options
           w == [wm EXCEPT !.started = TRUE]
       IN  IF opts.kind # "dict"
           THEN WatermarkRaise(<<"'list' object has no attribute 'get'">>, w)
           ELSE IF input.state # "valid"
           THEN WatermarkRaise(<<"open: ", input.state>>, w)
           ELSE /\ wm' = [w EXCEPT !.position = Get(opts, "position", "diagonal"),
                                   !.color = Get(opts, "color", DefaultColor),
                                   !.pages = [i \in 1..input.pages |-> i]]
                /\ pc' = "w_loop"
                /\ UNCHANGED result
    /\ UNCHANGED <<envVars, stdout, stderr, exitCode, pdf, saveCall, options, cv>>

\* str(KeyError) of Color(color['r'], color['g'], color['b'], ...): the first
\* of r, g, b the colour lacks
MissingKey(color) ==
    IF "r" \notin color THEN "'r'" ELSE IF "g" \notin color THEN "'g'" ELSE "'b'"

\* one iteration of the page loop, for the next page of reader.pages: the
\* page is fetched and its media box read (which may raise, before any packet
\* exists), a BytesIO packet is created, the colour is looked up (a colour
\* without r, g or b raises), the overlay is drawn, merged into the page, and
\* the page is added to the writer; a library call after the packet may
\* raise, before the merge or between the merge and writer.add_page
WatermarkPage ==
    /\ pc = "w_loop"
    /\ Len(wm.writer) < Len(wm.pages)
    /\ LET page == wm.pages[Len(wm.writer) + 1]
           w == [wm EXCEPT !.packets = Append(@, "open")]
       IN  \/ WatermarkRaise(<<"mediabox">>, wm)
           \/ IF ~(DefaultColor \subseteq wm.color)
              THEN WatermarkRaise(<<MissingKey(wm.color)>>, w)
              ELSE \/ WatermarkRaise(<<"merge">>, w)
                   \/ WatermarkRaise(<<"add_page">>,
                                     [w EXCEPT !.merged = Append(@, page)])
                   \/ /\ wm' = [w EXCEPT !.merged = Append(@, page),
                                         !.writer = Append(@, page)]
                      /\ UNCHANGED <<result, pc>>
    /\ UNCHANGED <<envVars, stdout, stderr, exitCode, pdf, saveCall, options, cv>>

\* after the loop: with open(output_path, 'wb') as output_file: writer.write;
\* open may raise, write may raise, and the with statement closes the file
\* that was opened either way; then the report with len(reader.pages)
WatermarkWrite ==
    /\ pc = "w_loop"
    /\ Len(wm.writer) = Len(wm.pages)
    /\ \/ WatermarkRaise(<<"open output">>, wm)
       \/ WatermarkRaise(<<"write">>, [wm EXCEPT !.outFile = "closed"])
       \/ /\ wm' = [wm EXCEPT !.outFile = "closed"]
          /\ result' = WatermarkReport(Len(wm.pages), Arg(4), wm.position)
          /\ pc' = "w_return"
    /\ UNCHANGED <<envVars, stdout, stderr, exitCode, pdf, saveCall, options, cv>>

\* add_watermark returns. No statement closes the packets: whether they are
\* released before main prints is up to the interpreter's finalisation.
WatermarkReturn ==
    /\ pc = "w_return"
    /\ \E finalised \in BOOLEAN :
          wm' = IF finalised
                THEN [wm EXCEPT !.packets = [i \in 1..Len(@) |-> "closed"]]
                ELSE wm
    /\ pc' = "print"
    /\ UNCHANGED <<envVars, stdout, stderr, exitCode, result, pdf, saveCall, options, cv>>

\* ------------------------------------------------------ docx_to_pdf.main
\* len(sys.argv) < 3
DocxUsage ==
    /\ pc = "main" /\ tool = "docx_to_pdf"
    /\ Argc < 3
    /\ Exit(Append(stdout, DocxUsageReport), stderr, 1)
    /\ UNCHANGED <<envVars, opVars>>

\* not os.path.exists(input_path)
DocxInputNotFound ==
    /\ pc = "main" /\ tool = "docx_to_pdf"
    /\ Argc >= 3
    /\ input.state = "missing"
    /\ Exit(Append(stdout, InputNotFoundReport(Arg(1))), stderr, 1)
    /\ UNCHANGED <<envVars, opVars>>

\* docx_to_pdf(input_path, output_path) is called
DocxCall ==
    /\ pc = "main" /\ tool = "docx_to_pdf"
    /\ Argc >= 3
    /\ input.state # "missing"
    /\ pc' = "d_load"
    /\ UNCHANGED <<envVars, opVars, stdout, stderr, exitCode>>

\* print(json.dumps(result)); sys.exit(0 if result['success'] else 1)
DocxPrintResult ==
    /\ pc = "print" /\ tool = "docx_to_pdf"
    /\ Exit(Append(stdout, result), stderr, IF result.success THEN 0 ELSE 1)
    /\ UNCHANGED <<envVars, opVars>>

\* ----------------------------------------------------------- docx_to_pdf
\* Document(input_path): raises for a file that is no DOCX
ConvertLoad ==
    /\ pc = "d_load"
    /\ IF input.state = "valid"
       THEN /\ pc' = "d_paras"
            /\ UNCHANGED result
       ELSE /\ result' = FailureReport(<<"open: ", input.state>>)
            /\ pc' = "print"
    /\ UNCHANGED <<envVars, stdout, stderr, exitCode, pdf, saveCall, options, wm, cv>>

\* one iteration of "for para in doc.paragraphs"; an exception that leaves the
\* iteration is caught by the except clause of docx_to_pdf
ConvertParagraph ==
    /\ pc = "d_paras"
    /\ cv.para < Len(doc.paragraphs)
    /\ LET para == doc.paragraphs[cv.para + 1]
           step == ParagraphStep(para)
           c == [cv EXCEPT !.para = @ + 1,
                           !.text = parse_docx_paragraph(para),
                           !.fallbacks = @ + (IF step.fallback THEN 1 ELSE 0),
                           !.story = @ \o step.blocks]
       IN  /\ cv' = c
           /\ IF step.raised
              THEN /\ result' = FailureReport(<<"paraparser: syntax error">>)
                   /\ pc' = "print"
              ELSE UNCHANGED <<result, pc>>
    /\ UNCHANGED <<envVars, stdout, stderr, exitCode, pdf, saveCall, options, wm>>

\* one iteration of "for table in doc.tables", after the paragraphs
ConvertTable ==
    /\ pc = "d_paras"
    /\ cv.para = Len(doc.paragraphs)
    /\ cv.table < Len(doc.tables)
    /\ cv' = [cv EXCEPT !.table = @ + 1,
                        !.story = @ \o TableStep(doc.tables[cv.table + 1])]
    /\ UNCHANGED <<envVars, stdout, stderr, exitCode, result, pdf, saveCall,
                   options, wm, pc>>

\* pdf_doc.build(story), os.path.getsize(output_path) and the report; build
\* may raise, and the file it writes is not empty
ConvertBuild ==
    /\ pc = "d_paras"
    /\ cv.para = Len(doc.paragraphs)
    /\ cv.table = Len(doc.tables)
    /\ \/ result' = FailureReport(<<"build">>)
       \/ \E output_size \in 1..MaxSize :
             result' = ConvertReport(Len(doc.paragraphs), Len(doc.tables), output_size)
    /\ pc' = "print"
    /\ UNCHANGED <<envVars, stdout, stderr, exitCode, pdf, saveCall, options, wm, cv>>

\* ------------------------------------------------------------------- Next
Next ==
    \/ ImportLibraries
    \/ ImportError
    \/ PdfNoOperation
    \/ PdfCompressUsage
    \/ PdfCompressCall
    \/ PdfWatermarkUsage
    \/ PdfWatermarkCall
    \/ PdfUnknownOperation
    \/ PdfPrintResult
    \/ CompressOpen
    \/ CompressSave
    \/ CompressReturn
    \/ WatermarkOpen
    \/ WatermarkPage
    \/ WatermarkWrite
    \/ WatermarkReturn
    \/ DocxUsage
    \/ DocxInputNotFound
    \/ DocxCall
    \/ DocxPrintResult
    \/ ConvertLoad
    \/ ConvertParagraph
    \/ ConvertTable
    \/ ConvertBuild

Spec == Init /\ [][Next]_vars

\* ------------------------------------------ paragraph translation, alone
\* the runs and paragraphs parse_docx_paragraph is applied to
ParseRuns ==
    {Run(t, b, i, u) : t \in {<<>>, <<"a">>, <<" ", "b">>},
                       b \in BOOLEAN, i \in BOOLEAN, u \in BOOLEAN}

ParseParagraphs ==
    {[runs |-> rs, style |-> "Normal"] : rs \in SeqsUpTo(ParseRuns, MaxRuns)}

InitParse ==
    /\ tool = "parse"
    /\ argv = <<>>
    /\ input = [state |-> "valid", size |-> 1, pages |-> 0]
    /\ \E para \in ParseParagraphs : doc = [paragraphs |-> <<para>>, tables |-> <<>>]
    /\ libs = "present"
    /\ pc = "parse"
    /\ stdout = <<>>
    /\ stderr = <<>>
    /\ exitCode = -1
    /\ result = NoResult
    /\ pdf = "none"
    /\ saveCall = <<>>
    /\ options = [kind |-> "unset"]
    /\ wm = WmInit
    /\ cv = CvInit

\* text = parse_docx_paragraph(para)
ParseParagraph ==
    /\ pc = "parse"
    /\ cv' = [cv EXCEPT !.text = parse_docx_paragraph(doc.paragraphs[1])]
    /\ pc' = "parsed"
    /\ UNCHANGED <<envVars, stdout, stderr, exitCode, result, pdf, saveCall, options, wm>>

NextParse == ParseParagraph

SpecParse == InitParse /\ [][NextParse]_vars

\* =================================================================== claims
Exited == pc = "exited"

\* C1: the process exits with code 0 exactly when the report it printed has
\* success = true; a compress or watermark report with success = false comes
\* with exit code 1.
C1_ExitZeroIffSuccess ==
    (Exited /\ stdout # <<>>) => (exitCode = 0 <=> Last(stdout).success)

\* C2: every run prints exactly one report before it ends, on every path:
\* never more than one report is on standard output, and a run that has ended
\* has printed one and left no traceback.
C2_ExactlyOneReport ==
    /\ Len(stdout) <= 1
    /\ Exited => (Len(stdout) = 1 /\ stderr = <<>>)

\* C2 witness: the usage path of compress (report, then sys.exit inside the try
\* block) has ended with its one report
C2_Witness ==
    /\ Exited /\ tool = "pdf_helper"
    /\ Argc = 4 /\ Arg(1) = "compress"
    /\ stdout = <<CompressUsageReport>>

\* C3: compress with an unrecognized level saves with the settings of medium
\* and returns the report compress(input, output, 'medium') returns, every
\* field included.
C3_UnknownLevelSameAsMedium ==
    (/\ Exited /\ tool = "pdf_helper"
     /\ Argc >= 5 /\ Arg(1) = "compress"
     /\ Arg(4) \notin {"low", "medium", "high", "extreme"}
     /\ saveCall # <<>>)
    => /\ saveCall[1].options = SaveOptionsTable["medium"]
       /\ stdout = <<CompressReport(input.size, saveCall[1].size, "medium")>>

IsDigit(c) == c \in {"0", "1", "2", "3", "4", "5", "6", "7", "8", "9"}

\* digits, a point, two digits and a percent sign, with no sign in front
NonNegativePercent2(t) ==
    /\ Len(t) >= 5
    /\ t[Len(t)] = "%"
    /\ IsDigit(t[Len(t) - 1]) /\ IsDigit(t[Len(t) - 2])
    /\ t[Len(t) - 3] = "."
    /\ \A k \in 1..(Len(t) - 4) : IsDigit(t[k])

\* C4: for each of the four levels, compress of a valid non-empty PDF that
\* does not raise reports success with compressed_size >= 0 and a ratio that is
\* a non-negative percentage with two decimals, whatever the output size.
C4_RatioNonNegative ==
    (/\ Exited /\ tool = "pdf_helper"
     /\ Argc >= 5 /\ Arg(1) = "compress"
     /\ Arg(4) \in {"low", "medium", "high", "extreme"}
     /\ saveCall # <<>>)
    => /\ stdout[1].success
       /\ stdout[1].compressed_size >= 0
       /\ NonNegativePercent2(stdout[1].compression_ratio)

\* C5: a paragraph whose styled block cannot be built never aborts the
\* conversion: once the fallback was taken, every paragraph is still
\* processed and the run ends with success = true (unless the final build, a
\* different library call, fails).
C5_FallbackNeverAborts ==
    (Exited /\ tool = "docx_to_pdf" /\ cv.fallbacks > 0)
    => /\ cv.para = Len(doc.paragraphs)
       /\ cv.table = Len(doc.tables)
       /\ (stdout[1].success \/ stdout[1].error = <<"build">>)

\* C6: watermark on an N-page input, when nothing raises, adds each input page
\* to the output once and in input order with one overlay merged per page, and
\* reports success with pages = N; for N = 0 no per-page work is done.
C6_WatermarkPagesInOrder ==
    /\ wm.writer = [i \in 1..Len(wm.writer) |-> i]
    /\ Len(wm.writer) <= input.pages
    /\ (pc \in {"w_return", "print", "exited"} /\ wm.started /\ ~wm.raised)
       => /\ result.success
          /\ result.pages = input.pages
          /\ wm.writer = [i \in 1..input.pages |-> i]
          /\ wm.merged = wm.writer
          /\ Len(wm.packets) = input.pages

\* C6 witness: a two-page input was watermarked and reported
C6_Witness ==
    /\ Exited /\ wm.started /\ ~wm.raised
    /\ input.pages = 2
    /\ wm.writer = <<1, 2>>
    /\ stdout[1].pages = 2

\* C7: malformed options_json as the fifth argument of watermark gives one
\* report with success = false and an error message, exit code 1, no traceback,
\* and add_watermark is never entered.
C7_MalformedOptionsReported ==
    (/\ tool = "pdf_helper"
     /\ Argc > 5 /\ Arg(1) = "watermark"
     /\ Arg(5) \notin ValidJson
     /\ libs = "present")
    => /\ pc \in {"import", "main", "exited"}
       /\ ~wm.started
       /\ Exited => /\ Len(stdout) = 1
                    /\ ~stdout[1].success
                    /\ stdout[1].error # <<>>
                    /\ exitCode = 1
                    /\ stderr = <<>>

\* C7 witness: a run with a malformed fifth argument has ended
C7_Witness ==
    /\ Exited /\ tool = "pdf_helper"
    /\ Argc > 5 /\ Arg(1) = "watermark"
    /\ Arg(5) = "{\"position\": "
    /\ libs = "present"
    /\ exitCode = 1

\* the tags of a run that are set, among `order` (outermost first)
OpenersOf(run, order) ==
    SelectSeq(order, LAMBDA tag : \/ (tag = "<b>" /\ run.bold)
                                  \/ (tag = "<i>" /\ run.italic)
                                  \/ (tag = "<u>" /\ run.underline))

Reverse(s) == [k \in 1..Len(s) |-> s[Len(s) + 1 - k]]

\* the text of a run inside its tags, opened in `order` and closed in reverse
Nested(run, order) ==
    LET opened == OpenersOf(run, order)
    IN  opened \o run.text \o [k \in 1..Len(opened) |-> CloseOf(Reverse(opened)[k])]

\* the runs' nested texts in run order, runs without text left out
NestedRuns(runs, order) ==
    LET kept == SelectSeq(runs, LAMBDA r : r.text # <<>>)
    IN  Concat([k \in 1..Len(kept) |-> Nested(kept[k], order)])

Parsed == pc = "parsed"

\* C8 as stated: each run with text is wrapped on its own with bold outermost,
\* then italic, then underline (<b><i><u>text</u></i></b>), and the
\* paragraph's text is the runs' wrapped texts in run order.
C8_BoldOutermost ==
    Parsed => cv.text = NestedRuns(doc.paragraphs[1].runs, <<"<b>", "<i>", "<u>">>)

\* C8 as amended: each run with text is wrapped on its own with underline
\* outermost, then italic, then bold innermost (<u><i><b>text</b></i></u>),
\* and the paragraph's text is the runs' wrapped texts in run order; runs
\* with empty text contribute nothing.
C8_UnderlineOutermost ==
    Parsed => cv.text = NestedRuns(doc.paragraphs[1].runs, <<"<u>", "<i>", "<b>">>)

\* C8 witness: a paragraph of a run with all three flags and a second run
\* was translated
C8_Witness ==
    /\ Parsed
    /\ doc.paragraphs[1].runs = <<Run(<<"a">>, TRUE, TRUE, TRUE),
                                  Run(<<" ", "b">>, FALSE, TRUE, FALSE)>>
    /\ cv.text = <<"<u>", "<i>", "<b>", "a", "</b>", "</i>", "</u>",
                   "<i>", " ", "b", "</i>">>

\* the text of the runs of a paragraph, without any markup
RawText(para) == Concat([k \in 1..Len(para.runs) |-> para.runs[k].text])

\* C9: a paragraph whose runs' text is empty or only whitespace becomes one
\* 0.2-inch spacer and never a styled block, whatever its runs' flags; no
\* styled block of the story is empty or whitespace-only.
C9_BlankParagraphIsSpacer ==
    (tool = "docx_to_pdf")
    => /\ \A k \in 1..cv.para :
            (k <= Len(cv.story) /\ Strip(RawText(doc.paragraphs[k])) = <<>>)
            => (cv.story[k].kind = "Spacer" /\ cv.story[k].height = ParagraphSpacer)
       /\ \A k \in 1..Len(cv.story) :
            cv.story[k].kind = "Paragraph"
            => Strip(StripMarkers(cv.story[k].text)) # <<>>

\* C10: when main prints the report of compress or watermark, everything the
\* operation opened (the input document, the output file, each overlay buffer)
\* has been closed, on the path where a call raised as well.
C10_HandlesReleasedBeforeReport ==
    (tool = "pdf_helper" /\ Exited)
    => /\ pdf # "open"
       /\ wm.outFile # "open"
       /\ \A k \in 1..Len(wm.packets) : wm.packets[k] = "closed"

====
